---- MODULE Spec2Model ----
(***************************************************************************)
(* A model of screen_recorder.py: the alpha compositor                     *)
(* overlay_image_alpha (a pure function on pixel arrays) and the recording *)
(* program main() with the keyboard listener thread.                       *)
(*                                                                         *)
(* Arrays are records [h, w, ch, px]: px maps <<row, column>> (0-based, as *)
(* in the source) to a tuple of ch channel values in 0..255.               *)
(***************************************************************************)
EXTENDS Integers, Sequences, FiniteSets, TLC

\* ---- bounds of the model ----
MaxW == 3            \* largest frame width drawn for the compositor
MaxH == 2            \* largest frame height drawn for the compositor
MaxS == 3            \* largest sprite edge drawn for the compositor
MaxCycles == 2       \* cycles of the recording loop that are explored

Max(a, b) == IF a >= b THEN a ELSE b
Min(a, b) == IF a <= b THEN a ELSE b

\* ---- input data ----------------------------------------------------------
\* Alpha values used in the sprites.  For these three values the float64
\* evaluation of (1.0 - a/255.0) * bg + (a/255.0) * fg, truncated by
\* astype(uint8), equals the exact quotient below for every bg, fg in 0..255.
Alphas == <<0, 128, 255>>
AlphaPatterns == {"zero", "half", "full", "mixed"}

AlphaAt(pattern, r, c) ==
    CASE pattern = "zero" -> 0
      [] pattern = "half" -> 128
      [] pattern = "full" -> 255
      [] OTHER -> Alphas[((r + c) % 3) + 1]

\* A BGR frame whose channel values identify the position they come from.
FrameOf(h, w, seed) ==
    [h |-> h, w |-> w, ch |-> 3,
     px |-> [p \in (0..(h-1)) \X (0..(w-1)) |->
               <<10 + 40 * p[1] + 10 * p[2] + seed,
                 13 + 40 * p[1] + 10 * p[2] + seed,
                 16 + 40 * p[1] + 10 * p[2] + seed>>]]

\* the value of a name that holds None
NoneArray == [h |-> 0, w |-> 0, ch |-> 0, px |-> <<>>]

\* A size x size sprite with ch channels (4 = BGRA, 3 = no alpha channel).
SpriteOf(size, ch, pattern) ==
    [h |-> size, w |-> size, ch |-> ch,
     px |-> [p \in (0..(size-1)) \X (0..(size-1)) |->
               LET b == 250 - 50 * p[1] - 12 * p[2]
               IN  IF ch = 4
                   THEN <<b, b - 2, b - 4, AlphaAt(pattern, p[1], p[2])>>
                   ELSE <<b, b - 2, b - 4>>]]

\* ---- numpy slicing and broadcasting -----------------------------------
\* a[lo:hi] on an axis of length n: negative bounds count from the end and
\* both bounds are clipped to the axis.
SliceBound(i, n) == IF i < 0 THEN Max(i + n, 0) ELSE Min(i, n)
SliceLen(lo, hi, n) == Max(0, SliceBound(hi, n) - SliceBound(lo, n))

\* a[y1:y2, x1:x2]
Slice2D(a, y1, y2, x1, x2) ==
    LET r0 == SliceBound(y1, a.h)
        c0 == SliceBound(x1, a.w)
        hh == SliceLen(y1, y2, a.h)
        ww == SliceLen(x1, x2, a.w)
    IN  [h |-> hh, w |-> ww, ch |-> a.ch,
         px |-> [p \in (0..(hh-1)) \X (0..(ww-1)) |->
                   a.px[<<r0 + p[1], c0 + p[2]>>]]]

\* two axis lengths combine under broadcasting iff equal or one of them is 1
Broadcastable(n, m) == n = m \/ n = 1 \/ m = 1
BroadcastLen(n, m) == IF n = 1 THEN m ELSE n
BroadcastIdx(i, n) == IF n = 1 THEN 0 ELSE i

\* one channel of (1.0 - alpha_mask) * screen_roi + alpha_mask * cursor_rgb,
\* converted by astype(np.uint8)
Blend_swapped(a, bg, fg) == (a * bg + (255 - a) * fg) \div 255
Blend_shift(a, bg, fg) == ((256 - a) * bg + a * fg) \div 256
Blend(a, bg, fg) == ((255 - a) * bg + a * fg) \div 255

\* ---- overlay_image_alpha ---------------------------------------------
\* destination box on the screen (top-left, bottom-right)
cur_box_x1_min(x) == Min(0, x)
cur_box_x1(x) == Max(0, x)
cur_box_y1(y) == Max(0, y)
cur_box_x2_unclipped(screen_w, x, cursor_w) == x + cursor_w
cur_box_x2(screen_w, x, cursor_w) == Min(screen_w, x + cursor_w)
cur_box_y2(screen_h, y, cursor_h) == Min(screen_h, y + cursor_h)

\* top-left corner of the part of the cursor image that is drawn
cur_img_x1_unnegated(x) == Max(0, x)
cur_img_x1(x) == Max(0, -x)
cur_img_y1(y) == Max(0, -y)

\* The rectangles computed before the blend.
OverlayBoxes(screen, cursor, x, y) ==
    LET bx1 == cur_box_x1(x)
        by1 == cur_box_y1(y)
        bx2 == cur_box_x2(screen.w, x, cursor.w)
        by2 == cur_box_y2(screen.h, y, cursor.h)
        bw  == bx2 - bx1
        bh  == by2 - by1
        ix1 == cur_img_x1(x)
        iy1 == cur_img_y1(y)
    IN  [cur_box_x1 |-> bx1, cur_box_y1 |-> by1,
         cur_box_x2 |-> bx2, cur_box_y2 |-> by2,
         cur_box_w |-> bw, cur_box_h |-> bh,
         cur_img_x1 |-> ix1, cur_img_y1 |-> iy1,
         cur_img_x2 |-> ix1 + bw, cur_img_y2 |-> iy1 + bh]

\* The try block: the blended screen, or "error" when a numpy operation of
\* the block raises (the except clause then leaves the screen as it was).
OverlayBlend(screen, cursor, b) ==
    LET Blended(cursor_roi, screen_roi) ==
          LET \* shape of (1.0 - alpha_mask) * screen_roi
              \*          + alpha_mask * cursor_rgb
              bl_h == BroadcastLen(cursor_roi.h, screen_roi.h)
              bl_w == BroadcastLen(cursor_roi.w, screen_roi.w)
              blended_roi ==
                [p \in (0..(bl_h-1)) \X (0..(bl_w-1)) |->
                   LET cp == cursor_roi.px[
                               <<BroadcastIdx(p[1], cursor_roi.h),
                                 BroadcastIdx(p[2], cursor_roi.w)>>]
                       sp == screen_roi.px[
                               <<BroadcastIdx(p[1], screen_roi.h),
                                 BroadcastIdx(p[2], screen_roi.w)>>]
                   IN  [k \in 1..3 |-> Blend(cp[4], sp[k], cp[k])]]
              r0 == SliceBound(b.cur_box_y1, screen.h)
              c0 == SliceBound(b.cur_box_x1, screen.w)
          IN  IF \/ cursor.ch < 4                        \* cursor_roi[..., 3]
                 \/ ~Broadcastable(cursor_roi.h, screen_roi.h)
                 \/ ~Broadcastable(cursor_roi.w, screen_roi.w)
                 \/ ~(bl_h = screen_roi.h \/ bl_h = 1)   \* assignment shape
                 \/ ~(bl_w = screen_roi.w \/ bl_w = 1)
              THEN [error |-> TRUE, screen |-> screen,
                    cursor_roi_shape |-> <<cursor_roi.h, cursor_roi.w>>,
                    screen_roi_shape |-> <<screen_roi.h, screen_roi.w>>]
              ELSE [error |-> FALSE,
                    screen |->
                      [screen EXCEPT !.px =
                         [p \in DOMAIN screen.px |->
                            IF /\ p[1] >= r0 /\ p[1] < r0 + screen_roi.h
                               /\ p[2] >= c0 /\ p[2] < c0 + screen_roi.w
                            THEN blended_roi[
                                   <<BroadcastIdx(p[1] - r0, bl_h),
                                     BroadcastIdx(p[2] - c0, bl_w)>>]
                            ELSE screen.px[p]]],
                    cursor_roi_shape |-> <<cursor_roi.h, cursor_roi.w>>,
                    screen_roi_shape |-> <<screen_roi.h, screen_roi.w>>]
    IN  \* the two regions of interest are taken once, then blended
        CHOOSE res \in
          {Blended(cursor_roi, screen_roi) :
             cursor_roi \in {Slice2D(cursor, b.cur_img_y1, b.cur_img_y2,
                                             b.cur_img_x1, b.cur_img_x2)},
             screen_roi \in {Slice2D(screen, b.cur_box_y1, b.cur_box_y2,
                                             b.cur_box_x1, b.cur_box_x2)}} :
          TRUE

\* overlay_image_alpha(screen, cursor, x, y): the screen after the call and
\* a record of what the call did.
overlay_image_alpha(screen, cursor, x, y) ==
    LET Body(b) ==
          IF b.cur_box_w <= 0 \/ b.cur_box_h <= 0
          THEN {[screen |-> screen, outcome |-> "returned_early",
                 boxes |-> b,
                 cursor_roi_shape |-> <<0, 0>>, screen_roi_shape |-> <<0, 0>>]}
          ELSE {[screen |-> res.screen,
                 outcome |-> IF res.error THEN "error" ELSE "blended",
                 boxes |-> b,
                 cursor_roi_shape |-> res.cursor_roi_shape,
                 screen_roi_shape |-> res.screen_roi_shape] :
                  res \in {OverlayBlend(screen, cursor, b)}}
    IN  CHOOSE r \in UNION {Body(b) :
                             b \in {OverlayBoxes(screen, cursor, x, y)}} : TRUE

\* ---- the environment of main() -----------------------------------------
\* sct.monitors: entry 0 is the union of all monitors, 1 the primary, ...
sct_monitors ==
    <<[left |-> 0, top |-> 0, width |-> 3, height |-> 2],
      [left |-> 0, top |-> 0, width |-> 2, height |-> 2],
      [left |-> 2, top |-> 0, width |-> 1, height |-> 2]>>
NoMonitor == [left |-> 0, top |-> 0, width |-> 0, height |-> 0]

\* values of the command line and of the file system that are explored
MonitorArgs == -1..3
SizeArgs == {2}
\* exists: os.path.exists(path); image: cv2.imread returns an array
CursorFiles ==
    {[exists |-> FALSE, image |-> FALSE, ch |-> 0, pattern |-> "zero"],
     [exists |-> TRUE, image |-> FALSE, ch |-> 0, pattern |-> "zero"],
     [exists |-> TRUE, image |-> TRUE, ch |-> 4, pattern |-> "mixed"],
     [exists |-> TRUE, image |-> TRUE, ch |-> 3, pattern |-> "full"]}
Seeds == {0, 1}                    \* contents of a grabbed screen
PointerXs == {0, 2}                \* pyautogui.position(), screen coordinates
PointerYs == {1} 
Keys == {"f5", "other"}            \* keys seen by the listener
WaitKeys == {"q", "none"}          \* results of cv2.waitKey(1) & 0xFF

NoException == [type |-> "none", at |-> "none"]

VARIABLES
    args,            \* parsed command line: monitor, cursor, size, no_cursor
    cursor_file,     \* what is stored at the path args.cursor
    pc,              \* position of the main thread
    stop_recording,  \* the module-level flag
    listener,        \* "running" or "stopped"
    cursor_img,      \* the loaded sprite, or NoneArray
    monitor,         \* the selected entry of sct.monitors
    out,             \* the VideoWriter: "none", "open", "released"
    written,         \* frames passed to out.write, in order
    window,          \* the preview: "none", "shown", "closed", "destroyed"
    frame_bgr,       \* the frame of the current cycle
    frame_pos,       \* <<frame_x, frame_y>>, or <<>> before it is assigned
    exception,       \* what was raised in the try block: "none", ...
    exit_code,       \* -1 while the process runs
    \* history of the run, read by the properties only
    captured,        \* frame_bgr as it was grabbed in the current cycle
    overlay_call,    \* <<>> or <<record of the last overlay_image_alpha call>>
    cycles,          \* number of cycles begun
    captures,        \* number of frames grabbed
    cancel_cycle,    \* the first cycle begun with the flag set, or 0
    written_ids,     \* for each frame written, the number of the capture it came from
    paced,           \* the last pacing step: <<>> or <<[elapsed_time, sleep_time, slept]>>
    wait_key,        \* the last result of cv2.waitKey(1) & 0xFF
    preview,         \* the frame last passed to cv2.imshow
    last_key,        \* the last key passed to on_press
    fatal,           \* the setup error that ended the run, or "none"
    written_at_cancel, \* Len(written) when the flag was set, -1 before
    cleanup          \* calls made: [release, destroy, listener_stop]

vars == <<args, cursor_file, pc, stop_recording, listener, cursor_img, monitor,
          out, written, window, frame_bgr, frame_pos, exception, exit_code,
          captured, overlay_call, cycles, captures, cancel_cycle, cleanup,
          written_ids, paced, wait_key, preview, last_key, fatal,
          written_at_cancel>>

\* the state right after the module is loaded: listener started, flag false
InitRun ==
    /\ pc = "start"
    /\ stop_recording = FALSE
    /\ listener = "running"
    /\ cursor_img = NoneArray
    /\ monitor = NoMonitor
    /\ out = "none"
    /\ written = <<>>
    /\ window = "none"
    /\ frame_bgr = NoneArray
    /\ frame_pos = <<>>
    /\ exception = NoException
    /\ exit_code = -1
    /\ captured = NoneArray
    /\ overlay_call = <<>>
    /\ cycles = 0
    /\ captures = 0
    /\ cancel_cycle = 0
    /\ cleanup = [release |-> 0, destroy |-> 0, listener_stop |-> 0]
    /\ written_ids = <<>>
    /\ paced = <<>>
    /\ wait_key = "none"
    /\ preview = NoneArray
    /\ last_key = "none"
    /\ fatal = "none"
    /\ written_at_cancel = 0 - 1

Init ==
    /\ args \in [monitor : MonitorArgs, cursor : {"default", "explicit"},
                 size : SizeArgs, no_cursor : BOOLEAN]
    /\ cursor_file \in CursorFiles
    /\ InitRun

\* ---- main(): setup -------------------------------------------------------
\* lines 139-159: load the custom cursor
LoadCursor ==
    /\ pc = "start"
    /\ IF cursor_file.exists
       THEN IF ~cursor_file.image
            THEN /\ pc' = "exited"             \* FileNotFoundError, sys.exit(1)
                 /\ exit_code' = 1
                 /\ fatal' = "cursor"
                 /\ UNCHANGED cursor_img
            ELSE /\ cursor_img' = SpriteOf(args.size, cursor_file.ch,
                                           cursor_file.pattern)
                 /\ pc' = "setup_monitor"
                 /\ UNCHANGED <<exit_code, fatal>>
       ELSE /\ pc' = "setup_monitor"           \* "Recording without a cursor."
            /\ UNCHANGED <<cursor_img, exit_code, fatal>>
    /\ UNCHANGED <<args, cursor_file, stop_recording, listener, monitor, out,
                   written, window, frame_bgr, frame_pos, exception, captured,
                   overlay_call, cycles, captures, cancel_cycle, cleanup,
                   written_ids, paced, wait_key, preview, last_key,
                   written_at_cancel>>

\* line 165: the test on the monitor index
MonitorIndexInvalid_no_negative(m, n) == m >= n
MonitorIndexInvalid(m, n) == m < 0 \/ m >= n

\* line 170: sct.monitors[i]; a negative index of a list counts from its end
MonitorAt(i) == sct_monitors[(IF i < 0 THEN i + Len(sct_monitors) ELSE i) + 1]

\* lines 162-183: select the monitor; fails: reading the monitor raises
SetupMonitor ==
    /\ pc = "setup_monitor"
    /\ \E fails \in BOOLEAN :
         IF MonitorIndexInvalid(args.monitor, Len(sct_monitors))
         THEN /\ pc' = "exited"                \* sys.exit(1) at line 168
              /\ exit_code' = 1
              /\ fatal' = "monitor_index"
              /\ UNCHANGED monitor
         ELSE IF fails
         THEN /\ pc' = "exited"                \* sys.exit(1) at line 183
              /\ exit_code' = 1
              /\ fatal' = "monitor_exception"
              /\ UNCHANGED monitor
         ELSE /\ monitor' = MonitorAt(args.monitor)
              /\ pc' = "setup_writer"
              /\ UNCHANGED <<exit_code, fatal>>
    /\ UNCHANGED <<args, cursor_file, stop_recording, listener, cursor_img, out,
                   written, window, frame_bgr, frame_pos, exception, captured,
                   overlay_call, cycles, captures, cancel_cycle, cleanup,
                   written_ids, paced, wait_key, preview, last_key,
                   written_at_cancel>>

\* lines 186-201: open the video writer and the preview window
SetupWriter ==
    /\ pc = "setup_writer"
    /\ out' = "open"
    /\ window' = "shown"
    /\ pc' = "loop_start"
    /\ UNCHANGED <<args, cursor_file, stop_recording, listener, cursor_img,
                   monitor, written, frame_bgr, frame_pos, exception, exit_code,
                   captured, overlay_call, cycles, captures, cancel_cycle,
                   cleanup, written_ids, paced, wait_key, preview, last_key,
                   fatal, written_at_cancel>>

\* ---- main(): one cycle of the loop ---------------------------------------
\* line 205: a cycle begins
LoopStart ==
    /\ pc = "loop_start"
    /\ cycles < MaxCycles
    /\ cycles' = cycles + 1
    /\ cancel_cycle' = IF cancel_cycle = 0 /\ stop_recording
                       THEN cycles + 1 ELSE cancel_cycle
    /\ pc' = "capture"
    /\ UNCHANGED <<args, cursor_file, stop_recording, listener, cursor_img,
                   monitor, out, written, window, frame_bgr, frame_pos,
                   exception, exit_code, captured, overlay_call, captures,
                   cleanup, written_ids, paced, wait_key, preview, last_key,
                   fatal, written_at_cancel>>

\* line 213 and what follows it: the overlay is skipped without a sprite,
\* the write at line 226 is made in both cases
AfterCapture_WriteInsideIf(has_cursor) ==
    IF has_cursor THEN "position" ELSE "show"
AfterCapture(has_cursor) == IF has_cursor THEN "position" ELSE "write"

\* lines 208-213: grab the screen, convert it, decide whether to overlay
Capture ==
    /\ pc = "capture"
    /\ \E seed \in Seeds :
         /\ frame_bgr' = FrameOf(monitor.height, monitor.width, seed)
         /\ captured' = FrameOf(monitor.height, monitor.width, seed)
    /\ captures' = captures + 1
    /\ pc' = AfterCapture(cursor_img # NoneArray)
    /\ UNCHANGED <<args, cursor_file, stop_recording, listener, cursor_img,
                   monitor, out, written, window, frame_pos, exception,
                   exit_code, overlay_call, cycles, cancel_cycle, cleanup,
                   written_ids, paced, wait_key, preview, last_key, fatal,
                   written_at_cancel>>

\* lines 215-219: sample the pointer, convert to monitor-relative coordinates
Position ==
    /\ pc = "position"
    /\ \E cursor_x \in PointerXs, cursor_y \in PointerYs :
         frame_pos' = <<cursor_x - monitor.left, cursor_y - monitor.top>>
    /\ pc' = "overlay"
    /\ UNCHANGED <<args, cursor_file, stop_recording, listener, cursor_img,
                   monitor, out, written, window, frame_bgr, exception,
                   exit_code, captured, overlay_call, cycles, captures,
                   cancel_cycle, cleanup, written_ids, paced, wait_key,
                   preview, last_key, fatal, written_at_cancel>>

\* where main continues after the call at line 223: overlay_image_alpha
\* handles the errors of its blend itself (lines 132-134) and returns
AfterOverlay_raises(outcome) == IF outcome = "error" THEN "finally" ELSE "write"
AfterOverlay(outcome) == "write"

\* line 223: overlay_image_alpha(frame_bgr, cursor_img, frame_x, frame_y)
Overlay ==
    /\ pc = "overlay"
    /\ \E res \in {overlay_image_alpha(frame_bgr, cursor_img,
                                        frame_pos[1], frame_pos[2])} :
           /\ frame_bgr' = res.screen
           /\ overlay_call' = <<[screen |-> frame_bgr, cursor |-> cursor_img,
                                 x |-> frame_pos[1], y |-> frame_pos[2],
                                 result |-> res.screen,
                                 outcome |-> res.outcome,
                                 boxes |-> res.boxes,
                                 cursor_roi_shape |-> res.cursor_roi_shape,
                                 screen_roi_shape |-> res.screen_roi_shape]>>
           /\ pc' = AfterOverlay(res.outcome)
    /\ UNCHANGED <<args, cursor_file, stop_recording, listener, cursor_img,
                   monitor, out, written, window, frame_pos, exception,
                   exit_code, captured, cycles, captures, cancel_cycle,
                   cleanup, written_ids, paced, wait_key, preview, last_key,
                   fatal, written_at_cancel>>

\* line 226: out.write(frame_bgr)
Write ==
    /\ pc = "write"
    /\ written' = Append(written, frame_bgr)
    /\ written_ids' = Append(written_ids, captures)
    /\ pc' = "show"
    /\ UNCHANGED <<args, cursor_file, stop_recording, listener, cursor_img,
                   monitor, out, window, frame_bgr, frame_pos, exception,
                   exit_code, captured, overlay_call, cycles, captures,
                   cancel_cycle, cleanup, paced, wait_key, preview, last_key,
                   fatal, written_at_cancel>>

\* line 229: cv2.imshow("Live", frame_bgr)
Show ==
    /\ pc = "show"
    /\ preview' = frame_bgr
    /\ pc' = "stop_check"
    /\ UNCHANGED <<args, cursor_file, stop_recording, listener, cursor_img,
                   monitor, out, written, window, frame_bgr, frame_pos,
                   exception, exit_code, captured, overlay_call, cycles,
                   captures, cancel_cycle, cleanup, written_ids, paced,
                   wait_key, last_key, fatal, written_at_cancel>>

\* line 231: the condition of the break
StopConditionNoFlag(q_pressed, flag, visible) == q_pressed \/ ~visible
StopConditionNoWindow(q_pressed, flag, visible) == q_pressed \/ flag
StopCondition(q_pressed, flag, visible) == q_pressed \/ flag \/ ~visible

\* lines 231-232: waitKey handles the window events, then the three tests;
\* visible: the preview window is still open after the events were handled
StopCheck ==
    /\ pc = "stop_check"
    /\ \E key \in WaitKeys, visible \in BOOLEAN :
         /\ wait_key' = key
         /\ window' = IF visible THEN window ELSE "closed"
         /\ pc' = IF StopCondition(key = "q", stop_recording, visible)
                  THEN "finally" ELSE "pace"
    /\ UNCHANGED <<args, cursor_file, stop_recording, listener, cursor_img,
                   monitor, out, written, frame_bgr, frame_pos, exception,
                   exit_code, captured, overlay_call, cycles, captures,
                   cancel_cycle, cleanup, written_ids, paced, preview,
                   last_key, fatal, written_at_cancel>>

\* lines 235-238: sleep for what is left of the frame period, if anything
FrameTime == 2
MaxElapsed == 3
\* line 236: what is left of the frame period
SleepTime_reversed(frame_time, elapsed_time) == elapsed_time - frame_time
SleepTime(frame_time, elapsed_time) == frame_time - elapsed_time

\* elapsed_time: time.time() - loop_start_time in ticks, whatever the steps
\* of the cycle took; slept: the duration passed to time.sleep, 0 without
\* a call
Pace ==
    /\ pc = "pace"
    /\ \E elapsed_time \in 0..MaxElapsed :
         LET sleep_time == SleepTime(FrameTime, elapsed_time)
         IN  paced' = <<[elapsed_time |-> elapsed_time,
                         sleep_time |-> sleep_time,
                         slept |-> IF sleep_time > 0 THEN sleep_time ELSE 0]>>
    /\ pc' = "loop_start"
    /\ UNCHANGED <<args, cursor_file, stop_recording, listener, cursor_img,
                   monitor, out, written, window, frame_bgr, frame_pos,
                   exception, exit_code, captured, overlay_call, cycles,
                   captures, cancel_cycle, cleanup, written_ids, wait_key,
                   preview, last_key, fatal, written_at_cancel>>

\* ---- main(): exceptions and the finally block ---------------------------
TryBody == {"loop_start", "capture", "position", "overlay", "write", "show",
            "stop_check", "pace"}
\* the calls into mss, pyautogui and cv2 that can raise inside a cycle
RaisingSteps == {"capture", "position", "write", "show", "stop_check"}

\* where control goes when an exception leaves the try body: both the
\* "except KeyboardInterrupt" clause and an uncaught exception continue in
\* the finally block
OnRaiseCleanupInHandler(type) ==
    IF type = "KeyboardInterrupt" THEN "finally" ELSE "done"
OnRaise(type) == "finally"

\* a call of the cycle raises an exception
StepRaises ==
    /\ pc \in RaisingSteps
    /\ exception = NoException
    /\ exception' = [type |-> "Exception", at |-> pc]
    /\ pc' = OnRaise("Exception")
    /\ exit_code' = IF pc' = "done" THEN 1 ELSE exit_code
    /\ UNCHANGED <<args, cursor_file, stop_recording, listener, cursor_img,
                   monitor, out, written, window, frame_bgr, frame_pos,
                   captured, overlay_call, cycles, captures, cancel_cycle,
                   cleanup, written_ids, paced, wait_key, preview, last_key,
                   fatal, written_at_cancel>>

\* lines 240-241: Ctrl-C while the loop runs
KeyboardInterrupt ==
    /\ pc \in TryBody
    /\ exception = NoException
    /\ exception' = [type |-> "KeyboardInterrupt", at |-> pc]
    /\ pc' = OnRaise("KeyboardInterrupt")
    /\ UNCHANGED <<args, cursor_file, stop_recording, listener, cursor_img,
                   monitor, out, written, window, frame_bgr, frame_pos,
                   exit_code, captured, overlay_call, cycles, captures,
                   cancel_cycle, cleanup, written_ids, paced, wait_key,
                   preview, last_key, fatal, written_at_cancel>>

\* lines 242-248, the finally block: out.release(), cv2.destroyAllWindows(),
\* listener.stop(); then main returns, or the uncaught exception ends the
\* process with exit code 1
Finally ==
    /\ pc = "finally"
    /\ out' = "released"
    /\ window' = "destroyed"
    /\ listener' = "stopped"
    /\ cleanup' = [release |-> cleanup.release + 1,
                   destroy |-> cleanup.destroy + 1,
                   listener_stop |-> cleanup.listener_stop + 1]
    /\ pc' = "done"
    /\ exit_code' = IF exception.type = "Exception" THEN 1 ELSE 0
    /\ UNCHANGED <<args, cursor_file, stop_recording, cursor_img, monitor,
                   written, frame_bgr, frame_pos, exception, captured,
                   overlay_call, cycles, captures, cancel_cycle, written_ids,
                   paced, wait_key, preview, last_key, fatal,
                   written_at_cancel>>

\* ---- the listener thread -------------------------------------------------
\* line 62: the key that stops the recording
IsStopKey_any(key) == TRUE
IsStopKey(key) == key = "f5"

\* lines 58-66: on_press(key); returning False stops the listener
OnPress ==
    /\ listener = "running"
    /\ pc \notin {"exited", "done"}
    /\ \E key \in Keys :
         /\ last_key' = key
         /\ IF IsStopKey(key)
            THEN /\ stop_recording' = TRUE
                 /\ listener' = "stopped"
                 /\ written_at_cancel' = Len(written)
            ELSE UNCHANGED <<stop_recording, listener, written_at_cancel>>
    /\ UNCHANGED <<args, cursor_file, pc, cursor_img, monitor, out, written,
                   window, frame_bgr, frame_pos, exception, exit_code, captured,
                   overlay_call, cycles, captures, cancel_cycle, cleanup,
                   written_ids, paced, wait_key, preview, fatal>>

Next ==
    \/ LoadCursor \/ SetupMonitor \/ SetupWriter
    \/ LoopStart \/ Capture \/ Position \/ Overlay \/ Write \/ Show
    \/ StopCheck \/ Pace
    \/ StepRaises \/ KeyboardInterrupt
    \/ Finally
    \/ OnPress

Spec == Init /\ [][Next]_vars

\* ---- the compositor on its own: inputs drawn from bounded sets ---------
InitOverlay ==
    /\ args = [monitor |-> 1, cursor |-> "default", size |-> 1,
               no_cursor |-> FALSE]
    /\ cursor_file = [exists |-> TRUE, image |-> TRUE, ch |-> 4,
                      pattern |-> "zero"]
    /\ \E h \in 1..MaxH, w \in 1..MaxW, seed \in Seeds :
         /\ frame_bgr = FrameOf(h, w, seed)
         /\ captured = FrameOf(h, w, seed)
         /\ monitor = [left |-> 0, top |-> 0, width |-> w, height |-> h]
         /\ frame_pos \in ((0 - MaxS - 1)..(w + 1)) \X ((0 - MaxS - 1)..(h + 1))
    /\ cursor_img \in {SpriteOf(s, c, a) :
                         s \in 1..MaxS, c \in {3, 4}, a \in AlphaPatterns}
    /\ pc = "overlay"
    /\ stop_recording = FALSE
    /\ listener = "running"
    /\ out = "open"
    /\ written = <<>>
    /\ window = "shown"
    /\ exception = NoException
    /\ exit_code = -1
    /\ overlay_call = <<>>
    /\ cycles = 1
    /\ captures = 1
    /\ cancel_cycle = 0
    /\ cleanup = [release |-> 0, destroy |-> 0, listener_stop |-> 0]
    /\ written_ids = <<>>
    /\ paced = <<>>
    /\ wait_key = "none"
    /\ preview = NoneArray
    /\ last_key = "none"
    /\ fatal = "none"
    /\ written_at_cancel = 0 - 1

NextOverlay == Overlay

SpecOverlay == InitOverlay /\ [][NextOverlay]_vars

\* ---- properties of overlay_image_alpha ----------------------------------
\* the last call of overlay_image_alpha, once one was made
Called == overlay_call # <<>>
Call == overlay_call[1]

\* the rectangle of the claims: rows and columns of the frame under the sprite
InOverlap(c, p) ==
    /\ Max(0, c.x) <= p[2] /\ p[2] < Min(c.screen.w, c.x + c.cursor.w)
    /\ Max(0, c.y) <= p[1] /\ p[1] < Min(c.screen.h, c.y + c.cursor.h)

AllAlpha(c, a) ==
    /\ c.cursor.ch = 4
    /\ \A q \in DOMAIN c.cursor.px : c.cursor.px[q][4] = a

FullyOutside(c) ==
    \/ c.x <= 0 - c.cursor.w \/ c.x >= c.screen.w
    \/ c.y <= 0 - c.cursor.h \/ c.y >= c.screen.h

\* C1: with a BGRA sprite, the frame after overlay_image_alpha has the shape
\* of the frame before it; each pixel (r, c) of the overlap rectangle is the
\* blend of the old pixel with sprite pixel (r - y, c - x), and every other
\* pixel is the old pixel.
C1_OnlyOverlapBlended ==
    (Called /\ Call.cursor.ch = 4) =>
        /\ Call.result.h = Call.screen.h
        /\ Call.result.w = Call.screen.w
        /\ DOMAIN Call.result.px = DOMAIN Call.screen.px
        /\ \A p \in DOMAIN Call.screen.px :
             Call.result.px[p] =
               IF InOverlap(Call, p)
               THEN LET sp == Call.cursor.px[<<p[1] - Call.y, p[2] - Call.x>>]
                        bg == Call.screen.px[p]
                    IN  <<Blend(sp[4], bg[1], sp[1]), Blend(sp[4], bg[2], sp[2]),
                          Blend(sp[4], bg[3], sp[3])>>
               ELSE Call.screen.px[p]

\* a call that straddles the left or top edge and changed the frame
C1_Witness ==
    /\ Called /\ Call.cursor.ch = 4 /\ Call.outcome = "blended"
    /\ Call.x < 0 /\ Call.y > 0 /\ Call.y + Call.cursor.h > Call.screen.h
    /\ Call.result # Call.screen
    /\ \E p \in DOMAIN Call.screen.px : ~InOverlap(Call, p)

\* C2: a call at a position fully outside the frame leaves the frame as it
\* was.
C2_OutsideIsNoOp ==
    (Called /\ FullyOutside(Call)) => Call.result = Call.screen

\* a call whose sprite lies beyond the right edge, rows in range
C2_Witness ==
    /\ Called /\ Call.x >= Call.screen.w /\ Call.y = 0
    /\ Call.cursor.ch = 4 /\ ~AllAlpha(Call, 0)
    /\ Call.outcome = "returned_early"

\* C3: when the call does not return early, the destination rectangle lies
\* inside the frame, the source rectangle inside the sprite, both are
\* non-empty and the two slices taken have the same shape; with a BGRA
\* sprite the blend then runs without raising.
C3_RectanglesInBounds ==
    (Called /\ Call.outcome # "returned_early") =>
        LET b == Call.boxes
        IN  /\ 0 <= b.cur_box_x1 /\ b.cur_box_x1 < b.cur_box_x2
            /\ b.cur_box_x2 <= Call.screen.w
            /\ 0 <= b.cur_box_y1 /\ b.cur_box_y1 < b.cur_box_y2
            /\ b.cur_box_y2 <= Call.screen.h
            /\ 0 <= b.cur_img_x1 /\ b.cur_img_x1 < b.cur_img_x2
            /\ b.cur_img_x2 <= Call.cursor.w
            /\ 0 <= b.cur_img_y1 /\ b.cur_img_y1 < b.cur_img_y2
            /\ b.cur_img_y2 <= Call.cursor.h
            /\ Call.screen_roi_shape = <<b.cur_box_h, b.cur_box_w>>
            /\ Call.cursor_roi_shape = Call.screen_roi_shape
            /\ (Call.cursor.ch = 4 => Call.outcome = "blended")

\* a sprite wider than the frame, hanging over both its left and right edge
C3_Witness ==
    /\ Called /\ Call.outcome = "blended"
    /\ Call.cursor.w > Call.screen.w
    /\ Call.x < 0 /\ Call.x + Call.cursor.w > Call.screen.w

\* C4: a sprite with alpha 0 at every pixel leaves the frame as it was.
C4_TransparentIsNoOp ==
    (Called /\ AllAlpha(Call, 0)) => Call.result = Call.screen

\* a transparent sprite that overlaps the frame and was blended
C4_Witness ==
    /\ Called /\ AllAlpha(Call, 0) /\ Call.outcome = "blended"
    /\ \E p \in DOMAIN Call.screen.px : InOverlap(Call, p)

\* C5: a sprite with alpha 255 at every pixel puts the colour of sprite pixel
\* (r - y, c - x) at every pixel (r, c) of the overlap rectangle and leaves
\* every other pixel as it was.
C5_OpaqueReplaces ==
    (Called /\ AllAlpha(Call, 255)) =>
        /\ DOMAIN Call.result.px = DOMAIN Call.screen.px
        /\ \A p \in DOMAIN Call.screen.px :
             Call.result.px[p] =
               IF InOverlap(Call, p)
               THEN LET sp == Call.cursor.px[<<p[1] - Call.y, p[2] - Call.x>>]
                    IN  <<sp[1], sp[2], sp[3]>>
               ELSE Call.screen.px[p]

\* an opaque sprite cut by the right and bottom edge of the frame
C5_Witness ==
    /\ Called /\ AllAlpha(Call, 255) /\ Call.outcome = "blended"
    /\ Call.x > 0 /\ Call.x + Call.cursor.w > Call.screen.w
    /\ Call.y > 0 /\ Call.y + Call.cursor.h > Call.screen.h
    /\ Call.result # Call.screen

\* ---- properties of the recording loop -----------------------------------
\* C6, as stated: once a cycle has begun with the cancel flag set, no frame
\* is captured or written any more.
C6_NoFrameAfterCancelledStart ==
    [][cancel_cycle # 0 => (written' = written /\ captures' = captures)]_vars

\* C6, amended: a cycle that begins with the cancel flag set is the last
\* one.  It captures and writes at most its own frame (exactly that frame
\* when nothing is raised before its stop check), its stop check ends the
\* loop, and no later cycle begins.
C6_CancelledCycleIsLast ==
    cancel_cycle # 0 =>
        /\ cycles = cancel_cycle
        /\ captures <= cancel_cycle
        /\ Len(written) <= cancel_cycle
        /\ pc \notin {"pace", "loop_start"}
        /\ (pc \in {"stop_check", "finally", "done"} /\ exception = NoException)
             => (captures = cancel_cycle /\ Len(written) = cancel_cycle)

\* the flag was set between the first stop check and the second cycle; the
\* second cycle wrote its frame and the loop ended at its stop check
C6_Witness ==
    /\ cancel_cycle = 2 /\ pc = "done" /\ exception = NoException
    /\ Len(written) = 2 /\ window = "destroyed"

\* C7: once the loop was entered, the run is inside the try block or in
\* its finally block or finished; when it has finished, however the loop
\* ended, the stream was released, the windows destroyed and the listener
\* stopped by exactly one call each; and nothing is written to a released
\* stream.
C7_CleanupExactlyOnce ==
    /\ [](/\ cycles >= 1 => pc \in TryBody \cup {"finally", "done"}
          /\ cleanup.release <= 1 /\ cleanup.destroy <= 1
          /\ cleanup.listener_stop <= 1
          /\ (cycles >= 1 /\ pc = "done") =>
                /\ out = "released" /\ window = "destroyed"
                /\ listener = "stopped"
                /\ cleanup = [release |-> 1, destroy |-> 1,
                              listener_stop |-> 1])
    /\ [][out = "released" => written' = written]_vars

\* a run ended by an uncaught exception raised in its second cycle
C7_Witness ==
    /\ pc = "done" /\ exception.type = "Exception" /\ cycles = 2
    /\ Len(written) >= 1 /\ out = "released" /\ exit_code = 1

\* C8, as stated: with --monitor 0 the run never opens the output stream,
\* never captures a frame and ends with exit code 1.
C8_MonitorZeroRejected ==
    args.monitor = 0 =>
        /\ out = "none"
        /\ captures = 0
        /\ pc \in {"exited", "done"} => exit_code = 1

\* C9, as stated: with an explicit cursor path whose file is missing the run
\* never opens the output stream, never captures a frame and ends with exit
\* code 1.
C9_ExplicitMissingFailsFast ==
    (args.cursor = "explicit" /\ ~cursor_file.exists) =>
        /\ out = "none"
        /\ captures = 0
        /\ pc \in {"exited", "done"} => exit_code = 1

\* C10, as stated: with --no-cursor the pointer is never sampled,
\* overlay_image_alpha is never called and each frame written is the frame
\* that was captured.
C10_NoCursorNoOverlay ==
    args.no_cursor =>
        /\ frame_pos = <<>>
        /\ overlay_call = <<>>
        /\ pc = "show" => written[Len(written)] = captured

\* C11, as stated: when the capture step of a cycle fails, the loop is still
\* running afterwards (it goes on to the next cycle) and the run is not
\* aborted.
C11_CaptureFailureContained ==
    (exception.type = "Exception" /\ exception.at = "capture") =>
        /\ pc \in TryBody
        /\ exit_code # 1

\* frames were written in capture order, none of them twice
WrittenInCaptureOrder ==
    /\ Len(written_ids) = Len(written)
    /\ \A i \in 1..Len(written_ids) : written_ids[i] = i

\* C12, as stated: a capture begins only when every earlier frame has been
\* written, frames are written once each in capture order, and at every
\* cycle boundary and once the loop has stopped the number of writes equals
\* the number of captures.
C12_EveryCaptureWritten ==
    /\ WrittenInCaptureOrder
    /\ pc \in {"loop_start", "capture", "pace", "finally", "done"}
         => Len(written) = captures

\* C12, amended: a capture begins only when every earlier frame has been
\* written, and frames are written at most once each, in capture order.
\* Writes equal captures at every cycle boundary and when the loop stops at
\* its stop check; one captured frame stays unwritten exactly when the cycle
\* is between capture and write, or was ended there by KeyboardInterrupt or
\* an uncaught exception.
C12_NoOverlapInOrder ==
    /\ WrittenInCaptureOrder
    /\ captures <= cycles
    /\ Len(written) <= captures /\ captures <= Len(written) + 1
    /\ pc \in {"loop_start", "capture", "show", "stop_check", "pace"}
         => Len(written) = captures
    /\ (pc \in {"finally", "done"} /\ exception = NoException)
         => Len(written) = captures
    /\ captures = Len(written) + 1
         => \/ pc \in {"position", "overlay", "write"}
            \/ /\ pc \in {"finally", "done"}
               /\ exception.at \in {"position", "overlay", "write"}

\* Ctrl-C between the second capture and its write: two captures, one write
C12_Witness ==
    /\ pc = "done" /\ exception.type = "KeyboardInterrupt"
    /\ captures = 2 /\ Len(written) = 1 /\ written_ids = <<1>>

\* C13: each pacing step sleeps for max(0, period - elapsed), never for a
\* negative duration, so the next cycle starts at least one period after
\* this one started; after an overrun nothing is slept, and the next cycle
\* still captures and writes its frame.
C13_PacingNeverShort ==
    paced # <<>> =>
        LET p == paced[1]
        IN  /\ p.slept = Max(0, FrameTime - p.elapsed_time)
            /\ p.slept >= 0
            /\ p.elapsed_time + p.slept >= FrameTime
            /\ p.elapsed_time >= FrameTime => p.slept = 0
            /\ (p.elapsed_time > FrameTime /\ pc \in {"show", "stop_check"})
                 => (captures = cycles /\ Len(written) = cycles)

\* the first cycle overran its period; the second one wrote its frame
C13_Witness ==
    /\ paced # <<>> /\ paced[1].elapsed_time > FrameTime
    /\ paced[1].slept = 0
    /\ pc = "stop_check" /\ cycles = 2 /\ Len(written) = 2

\* C15: the stop check is reached only with the frame of the cycle written
\* and shown; it ends the loop exactly when 'q' was read, or the cancel flag
\* is set, or the preview window is no longer visible, and otherwise goes on
\* to the pacing step.
C15_StopIffCondition ==
    /\ [](pc = "stop_check" =>
            /\ Len(written) = cycles
            /\ written[cycles] = frame_bgr
            /\ preview = frame_bgr)
    /\ [][(pc = "stop_check" /\ pc' # pc /\ exception' = exception) =>
            /\ pc' \in {"finally", "pace"}
            /\ pc' = "finally" <=>
                 (wait_key' = "q" \/ stop_recording \/ window' # "shown")]_vars

\* a loop ended by the closed window alone, in its second cycle
C15_Witness ==
    /\ pc = "finally" /\ exception = NoException /\ cycles = 2
    /\ wait_key = "none" /\ ~stop_recording /\ window = "closed"

\* C16: the cancel flag is false until F5 is pressed and never goes back to
\* false; it is set only by a step of the listener, on F5, which also stops
\* the listener, while the main thread does not move; any other key leaves
\* the flag as it was and the listener running.
C16_FlagSetOnlyByF5 ==
    /\ [](/\ stop_recording <=> last_key = "f5"
          /\ stop_recording => listener = "stopped")
    /\ [][/\ stop_recording => stop_recording'
          /\ stop_recording' # stop_recording =>
               /\ listener = "running" /\ listener' = "stopped"
               /\ last_key' = "f5"
               /\ pc' = pc /\ written' = written
          /\ (last_key' = "other" /\ last_key # "other") =>
               /\ stop_recording' = stop_recording
               /\ listener = "running" /\ listener' = "running"]_vars

\* F5 was pressed while the second cycle ran
C16_Witness ==
    /\ stop_recording /\ listener = "stopped" /\ last_key = "f5"
    /\ pc = "stop_check" /\ cycles = 2

\* C17: when the blend inside overlay_image_alpha fails, the call returns
\* normally with the frame as it was captured; that frame is written in the
\* same cycle and the cycle goes on to its stop check and pacing.
C17_BlendErrorContained ==
    /\ [][(/\ pc = "overlay" /\ pc' # pc /\ exception' = exception
           /\ overlay_call' # <<>> /\ overlay_call'[1].outcome = "error") =>
            /\ pc' = "write"
            /\ frame_bgr' = captured
            /\ exit_code' = exit_code]_vars
    /\ []((/\ Called /\ Call.outcome = "error"
           /\ pc \in {"show", "stop_check", "pace"}) =>
            /\ Len(written) = cycles
            /\ written[cycles] = captured)

\* a sprite without alpha channel: the blend of the first cycle failed, its
\* frame was written unchanged, and the second cycle has begun
C17_Witness ==
    /\ Called /\ Call.outcome = "error" /\ Call.cursor.ch = 3
    /\ pc = "capture" /\ cycles = 2 /\ exception = NoException
    /\ Len(written) = 1 /\ written[1] = captured

\* C18: a run that ends in setup ends with exit code 1, with no stream
\* opened, no preview window created and no frame captured or written; and
\* an unloadable cursor file, a monitor index that is negative or greater
\* than the number of monitors, and an exception while the monitor is read
\* each end the run in setup.
C18_FatalSetupErrors ==
    /\ pc = "exited" =>
         /\ exit_code = 1 /\ fatal # "none"
         /\ out = "none" /\ window = "none"
         /\ captures = 0 /\ written = <<>> /\ cycles = 0
    /\ fatal # "none" => pc = "exited"
    /\ (cursor_file.exists /\ ~cursor_file.image /\ pc # "start")
         => (pc = "exited" /\ fatal = "cursor")
    /\ (/\ args.monitor < 0 \/ args.monitor > Len(sct_monitors) - 1
        /\ pc \notin {"start", "setup_monitor"})
         => pc = "exited"

\* a negative monitor index, found after the cursor was loaded
C18_Witness ==
    /\ pc = "exited" /\ fatal = "monitor_index" /\ args.monitor < 0
    /\ cursor_img # NoneArray /\ exit_code = 1

\* C19, as stated: a run that ends in setup has stopped the keyboard
\* listener before the process terminates.
C19_SetupExitStopsListener ==
    pc = "exited" => listener = "stopped"

\* C20: at most one frame is written after the cancel flag was set, wherever
\* in the cycle the listener set it.
C20_AtMostOneFrameAfterCancel ==
    stop_recording =>
        /\ written_at_cancel >= 0
        /\ Len(written) <= written_at_cancel + 1

\* the flag was set in mid-cycle, before the write of that cycle, and the
\* loop ended at the stop check of the same cycle
C20_Witness ==
    /\ stop_recording /\ pc = "done" /\ exception = NoException
    /\ cancel_cycle = 0 /\ cycles = 2
    /\ Len(written) = written_at_cancel + 1

\* ---- the run under a scheduler that keeps the main thread going ---------
\* the steps of the main thread; each is a finite piece of sequential code
MainStep ==
    \/ LoadCursor \/ SetupMonitor \/ SetupWriter
    \/ LoopStart \/ Capture \/ Position \/ Overlay \/ Write \/ Show
    \/ StopCheck \/ Pace \/ Finally

\* runs with a valid monitor index and the default cursor path
InitLive ==
    /\ args \in [monitor : {1, 2}, cursor : {"default"}, size : SizeArgs,
                 no_cursor : {FALSE}]
    /\ cursor_file \in CursorFiles
    /\ InitRun

\* no call of a cycle raises; Ctrl-C and the listener stay possible
NextLive == MainStep \/ KeyboardInterrupt \/ OnPress

SpecLive == InitLive /\ [][NextLive]_vars /\ WF_vars(MainStep)

\* C14: once the cancel flag is set while the loop runs (and the loop is not
\* at the end of the last cycle that is explored), the run reaches the end of
\* main with the teardown done; and a stop check executed with the flag set
\* always ends the loop, so no stop check is passed with the flag set.
C14_CancelLeadsToStopped ==
    /\ (/\ stop_recording /\ pc \in TryBody
        /\ ~(cycles = MaxCycles /\ pc \in {"pace", "loop_start"}))
         ~> (/\ pc = "done" /\ out = "released" /\ window = "destroyed"
             /\ listener = "stopped"
             /\ cleanup = [release |-> 1, destroy |-> 1, listener_stop |-> 1])
    /\ [][(pc = "stop_check" /\ stop_recording /\ pc' # pc) =>
            pc' = "finally"]_vars

\* F5 was pressed after the first stop check; the second one ended the loop
\* and the teardown ran
C14_Witness ==
    /\ stop_recording /\ pc = "done" /\ exception = NoException
    /\ cancel_cycle = 2 /\ wait_key = "none" /\ window = "destroyed"
    /\ out = "released"

====
